---- MODULE Spec2Model ----
(***************************************************************************)
(* Model of src/main.cpp, a terminal space shooter: a grid `space`, a      *)
(* shooter column, a bullet list and three timers, driven by one loop.     *)
(* One iteration of `while (true)` (a tick) is the sequence of actions     *)
(*   ReadKey ; Fire ; (MoveShooter | Quit) ; Deploy ; Descend ;            *)
(*   AdvanceBullets                                                        *)
(* each one a block of main() in source order.  Time is counted in units   *)
(* of 100 ms.  The board is scaled down from 30 x 160; every hard-coded    *)
(* row or column of the source (27, 28, 29, 158) is kept as its offset     *)
(* from the board size.                                                    *)
(***************************************************************************)
EXTENDS Integers, Sequences, FiniteSets, TLC

\* ---- bounds -------------------------------------------------------------
Rows == 6          \* int rows = 30 scaled down
Cols == 4          \* int cols = 160 scaled down
MaxEnemies == 2    \* the clock lets the spawn gate elapse only below this

\* ---- program constants (time unit: 100 ms) --------------------------------
FireInterval == 1       \* >= 100 ms
DescentInterval == 5    \* >= 500 ms
SpawnInterval == 20     \* >= 2 s

ShooterRow == Rows - 2          \* the literal 28
BulletRow == Rows - 3           \* the literal 27
BottomRow == Rows - 1           \* the literal 29
ShooterStart == (70 * Cols) \div 160   \* the literal 70, scaled with cols

\* get_keypress(): 'a', 'd', 'q'; "other" is '\0' (no key) or any other character
Keys == {"a", "d", "q", "other"}
\* time between two readings of steady_clock::now(): less than a unit, just
\* under a descent interval, a descent interval, a spawn interval
Elapsed == {0, DescentInterval - 1, DescentInterval, SpawnInterval}

VARIABLES
    space,             \* vector<vector<char>>: " ", "#", "A", "."
    shooter_position,  \* column of the shooter
    bullets,           \* vector<pair<int,int>> as a sequence of <<row, col>>
    bullet_elapsed,    \* now - last_bullet_time, saturated at FireInterval
    deploy_elapsed,    \* now - last_deploy_time, saturated at SpawnInterval
    frame_elapsed,     \* now - last_frame_time, saturated at DescentInterval
    move,              \* char move: the key read and not yet applied
    raw_mode,          \* terminal in raw mode
    non_blocking,      \* stdin non-blocking
    state,             \* "Running", "Lost", "Quit"
    pc,                \* position inside the loop body
    tick_start         \* history: board, column and bullets when the current
                       \* iteration of the loop began

vars == <<space, shooter_position, bullets, bullet_elapsed, deploy_elapsed,
          frame_elapsed, move, raw_mode, non_blocking, state, pc, tick_start>>

Min(a, b) == IF a < b THEN a ELSE b

EnemyCells(sp) == {c \in (0 .. Rows - 1) \X (0 .. Cols - 1) : sp[c[1]][c[2]] = "#"}

\* ---- update_board ---------------------------------------------------------
\* faulty variant of move_down: only another enemy blocks, a shooter or bullet mark is overwritten
move_down_over_marks(sp, i, j) ==
    IF sp[i][j] = "#" /\ sp[i + 1][j] # "#"
    THEN [sp EXCEPT ![i][j] = " ", ![i + 1][j] = "#"]
    ELSE sp

\* faulty variant of move_down: an enemy below does not block
move_down_merge(sp, i, j) ==
    IF sp[i][j] = "#" /\ sp[i + 1][j] \in {" ", "#"}
    THEN [sp EXCEPT ![i][j] = " ", ![i + 1][j] = "#"]
    ELSE sp

\* lines 63-66: one cell of the scan
move_down(sp, i, j) ==
    IF sp[i][j] = "#" /\ sp[i + 1][j] = " "
    THEN [sp EXCEPT ![i][j] = " ", ![i + 1][j] = "#"]
    ELSE sp

\* faulty variant of reached_bottom: the loss test never succeeds
reached_bottom_ignored(sp, j) == FALSE

\* line 69
reached_bottom(sp, j) == sp[BottomRow][j] = "#"

\* lines 60-77: rows from size-2 up to 1, columns 1 .. size-2, the loss
\* check after every cell; exit(0) ends the scan where it stands
RECURSIVE scan_board(_, _, _)
scan_board(sp, i, j) ==
    IF i < 1 THEN [space |-> sp, lost |-> FALSE]
    ELSE IF j >= Cols - 1 THEN scan_board(sp, i - 1, 1)
    ELSE LET moved == move_down(sp, i, j)
         IN  IF reached_bottom(moved, j)
             THEN [space |-> moved, lost |-> TRUE]
             ELSE scan_board(moved, i, j + 1)

\* the scan of lines 60-77 with the rows taken from the top downward
RECURSIVE scan_board_downward(_, _, _)
scan_board_downward(sp, i, j) ==
    IF i > Rows - 2 THEN [space |-> sp, lost |-> FALSE]
    ELSE IF j >= Cols - 1 THEN scan_board_downward(sp, i + 1, 1)
    ELSE LET moved == move_down(sp, i, j)
         IN  IF reached_bottom(moved, j)
             THEN [space |-> moved, lost |-> TRUE]
             ELSE scan_board_downward(moved, i, j + 1)

\* faulty variant of update_board: rows are processed from the top downward
update_board_top_down(sp) == scan_board_downward(sp, 1, 1)

\* faulty variant of update_board: the scan starts one row too high
update_board_from_row27(sp) == scan_board(sp, Rows - 3, 1)

\* lines 58-78
update_board(sp) == scan_board(sp, Rows - 2, 1)

\* ---- bullet advancement ---------------------------------------------------
\* faulty variant of erase_bullets: the old marks are left on the board
erase_bullets_skipped(sp, bs, k) == sp

\* lines 163-166: erase the marks of the listed bullets
RECURSIVE erase_bullets(_, _, _)
erase_bullets(sp, bs, k) ==
    IF k > Len(bs) THEN sp
    ELSE LET b == bs[k]
         IN  erase_bullets(IF sp[b[1]][b[2]] = "."
                           THEN [sp EXCEPT ![b[1]][b[2]] = " "]
                           ELSE sp, bs, k + 1)

\* faulty variant of bullet_step: the top border row counts as inside the screen
bullet_step_into_border(sp, nb, b) ==
    LET new_x == b[1] - 1
        y == b[2]
    IN  IF new_x >= 0
        THEN IF sp[new_x][y] = "#"
             THEN [space |-> [sp EXCEPT ![new_x][y] = " "], new_bullets |-> nb]
             ELSE [space |-> sp, new_bullets |-> Append(nb, <<new_x, y>>)]
        ELSE [space |-> sp, new_bullets |-> nb]

\* faulty variant of bullet_step: the bullet that hits an enemy flies on
bullet_step_no_continue(sp, nb, b) ==
    LET new_x == b[1] - 1
        y == b[2]
    IN  IF new_x >= 1
        THEN IF sp[new_x][y] = "#"
             THEN [space |-> [sp EXCEPT ![new_x][y] = " "],
                   new_bullets |-> Append(nb, <<new_x, y>>)]
             ELSE [space |-> sp, new_bullets |-> Append(nb, <<new_x, y>>)]
        ELSE [space |-> sp, new_bullets |-> nb]

\* lines 170-182: one bullet of the advancement loop
bullet_step(sp, nb, b) ==
    LET new_x == b[1] - 1
        y == b[2]
    IN  IF new_x >= 1
        THEN IF sp[new_x][y] = "#"
             THEN [space |-> [sp EXCEPT ![new_x][y] = " "], new_bullets |-> nb]
             ELSE [space |-> sp, new_bullets |-> Append(nb, <<new_x, y>>)]
        ELSE [space |-> sp, new_bullets |-> nb]

\* lines 168-183
RECURSIVE advance(_, _, _, _)
advance(sp, nb, bs, k) ==
    IF k > Len(bs) THEN [space |-> sp, new_bullets |-> nb]
    ELSE LET r == bullet_step(sp, nb, bs[k])
         IN  advance(r.space, r.new_bullets, bs, k + 1)

\* lines 186-188
RECURSIVE draw_bullets(_, _, _)
draw_bullets(sp, nb, k) ==
    IF k > Len(nb) THEN sp
    ELSE draw_bullets([sp EXCEPT ![nb[k][1]][nb[k][2]] = "."], nb, k + 1)

\* ---- the loop -------------------------------------------------------------
Init ==
    /\ space = [i \in 0 .. Rows - 1 |-> [j \in 0 .. Cols - 1 |-> " "]]
    /\ shooter_position = ShooterStart
    /\ bullets = <<>>
    /\ bullet_elapsed = 0
    /\ deploy_elapsed = 0
    /\ frame_elapsed = 0
    /\ move = "other"
    /\ raw_mode = TRUE
    /\ non_blocking = TRUE
    /\ state = "Running"
    /\ pc = "read"
    /\ tick_start = [space |-> space, shooter_position |-> shooter_position,
                     bullets |-> bullets]

\* lines 115-118: now = steady_clock::now(); move = get_keypress()
ReadKey ==
    /\ state = "Running" /\ pc = "read"
    /\ \E dt \in Elapsed, ch \in Keys :
        /\ deploy_elapsed + dt >= SpawnInterval
              => Cardinality(EnemyCells(space)) < MaxEnemies
        /\ bullet_elapsed' = Min(bullet_elapsed + dt, FireInterval)
        /\ deploy_elapsed' = Min(deploy_elapsed + dt, SpawnInterval)
        /\ frame_elapsed' = Min(frame_elapsed + dt, DescentInterval)
        /\ move' = ch
    /\ pc' = "fire"
    /\ UNCHANGED <<tick_start, space, shooter_position, bullets, raw_mode, non_blocking, state>>

\* faulty variant of new_bullet: the bullet starts in the shooter's own row
new_bullet_in_shooter_row(p) == <<ShooterRow, p>>

\* line 122
new_bullet(p) == <<BulletRow, p>>

\* faulty variant of Fire: the gate is not reset before a second push
Fire_twice ==
    /\ state = "Running" /\ pc = "fire"
    /\ IF bullet_elapsed >= FireInterval
       THEN /\ bullets' = Append(Append(bullets, new_bullet(shooter_position)),
                                 new_bullet(shooter_position))
            /\ bullet_elapsed' = 0
       ELSE UNCHANGED <<bullets, bullet_elapsed>>
    /\ pc' = "move"
    /\ UNCHANGED <<tick_start, space, shooter_position, deploy_elapsed, frame_elapsed, move,
                   raw_mode, non_blocking, state>>

\* lines 120-124
Fire ==
    /\ state = "Running" /\ pc = "fire"
    /\ IF bullet_elapsed >= FireInterval
       THEN /\ bullets' = Append(bullets, new_bullet(shooter_position))
            /\ bullet_elapsed' = 0
       ELSE UNCHANGED <<bullets, bullet_elapsed>>
    /\ pc' = "move"
    /\ UNCHANGED <<tick_start, space, shooter_position, deploy_elapsed, frame_elapsed, move,
                   raw_mode, non_blocking, state>>

\* faulty variant of new_position: 'a' without its bound check
new_position_unchecked(p, ch) ==
    IF ch = "a" THEN p - 1
    ELSE IF ch = "d" THEN (IF p < Cols - 2 THEN p + 1 ELSE p)
    ELSE p

\* lines 130-138: the switch without its 'q' case
new_position(p, ch) ==
    IF ch = "a" THEN (IF p > 1 THEN p - 1 ELSE p)
    ELSE IF ch = "d" THEN (IF p < Cols - 2 THEN p + 1 ELSE p)
    ELSE p

\* faulty variant of MoveShooter: the old shooter cell is not cleared
MoveShooter_no_clear ==
    /\ state = "Running" /\ pc = "move" /\ move # "q"
    /\ shooter_position' = new_position(shooter_position, move)
    /\ space' = [space EXCEPT ![ShooterRow][shooter_position'] = "A"]
    /\ move' = "other"
    /\ pc' = "deploy"
    /\ UNCHANGED <<tick_start, bullets, bullet_elapsed, deploy_elapsed, frame_elapsed,
                   raw_mode, non_blocking, state>>

\* lines 126-147, keys other than 'q'
MoveShooter ==
    /\ state = "Running" /\ pc = "move" /\ move # "q"
    /\ shooter_position' = new_position(shooter_position, move)
    /\ space' = [[space EXCEPT ![ShooterRow][shooter_position] = " "]
                    EXCEPT ![ShooterRow][shooter_position'] = "A"]
    /\ move' = "other"
    /\ pc' = "deploy"
    /\ UNCHANGED <<tick_start, bullets, bullet_elapsed, deploy_elapsed, frame_elapsed,
                   raw_mode, non_blocking, state>>

\* faulty variant of Quit: the terminal is left in raw mode
Quit_keeps_raw_mode ==
    /\ state = "Running" /\ pc = "move" /\ move = "q"
    /\ space' = [space EXCEPT ![ShooterRow][shooter_position] = " "]
    /\ non_blocking' = FALSE
    /\ state' = "Quit"
    /\ pc' = "done"
    /\ UNCHANGED <<tick_start, shooter_position, bullets, bullet_elapsed, deploy_elapsed,
                   frame_elapsed, move, raw_mode>>

\* lines 126-127 and 139-143: case 'q'
Quit ==
    /\ state = "Running" /\ pc = "move" /\ move = "q"
    /\ space' = [space EXCEPT ![ShooterRow][shooter_position] = " "]
    /\ raw_mode' = FALSE
    /\ non_blocking' = FALSE
    /\ state' = "Quit"
    /\ pc' = "done"
    /\ UNCHANGED <<tick_start, shooter_position, bullets, bullet_elapsed, deploy_elapsed,
                   frame_elapsed, move>>

\* faulty variant of generate_random: the border columns are drawn too
generate_random_with_border == 0 .. Cols - 1

\* lines 47-55: low = 1, high = 158 (cols - 2)
generate_random == 1 .. Cols - 2

\* lines 149-154
Deploy ==
    /\ state = "Running" /\ pc = "deploy"
    /\ IF deploy_elapsed >= SpawnInterval
       THEN \E deploy_position \in generate_random :
               /\ space' = [space EXCEPT ![1][deploy_position] = "#"]
               /\ deploy_elapsed' = 0
       ELSE UNCHANGED <<space, deploy_elapsed>>
    /\ pc' = "descend"
    /\ UNCHANGED <<tick_start, shooter_position, bullets, bullet_elapsed, frame_elapsed, move,
                   raw_mode, non_blocking, state>>

\* faulty variant of Descend: the bullet marks are erased before the enemies move
Descend_marks_erased ==
    /\ state = "Running" /\ pc = "descend"
    /\ IF frame_elapsed >= DescentInterval
       THEN LET r == update_board(erase_bullets(space, bullets, 1))
            IN  /\ space' = r.space
                /\ IF r.lost
                   THEN /\ raw_mode' = FALSE
                        /\ non_blocking' = FALSE
                        /\ state' = "Lost"
                        /\ pc' = "done"
                        /\ UNCHANGED frame_elapsed
                   ELSE /\ frame_elapsed' = 0
                        /\ pc' = "bullets"
                        /\ UNCHANGED <<raw_mode, non_blocking, state>>
       ELSE /\ pc' = "bullets"
            /\ UNCHANGED <<space, frame_elapsed, raw_mode, non_blocking, state>>
    /\ UNCHANGED <<tick_start, shooter_position, bullets, bullet_elapsed, deploy_elapsed, move>>

\* lines 156-160, with update_board's exit at lines 69-75
Descend ==
    /\ state = "Running" /\ pc = "descend"
    /\ IF frame_elapsed >= DescentInterval
       THEN LET r == update_board(space)
            IN  /\ space' = r.space
                /\ IF r.lost
                   THEN /\ raw_mode' = FALSE
                        /\ non_blocking' = FALSE
                        /\ state' = "Lost"
                        /\ pc' = "done"
                        /\ UNCHANGED frame_elapsed
                   ELSE /\ frame_elapsed' = 0
                        /\ pc' = "bullets"
                        /\ UNCHANGED <<raw_mode, non_blocking, state>>
       ELSE /\ pc' = "bullets"
            /\ UNCHANGED <<space, frame_elapsed, raw_mode, non_blocking, state>>
    /\ UNCHANGED <<tick_start, shooter_position, bullets, bullet_elapsed, deploy_elapsed, move>>

\* lines 162-193: erase, advance, draw, then print_board and the sleep
AdvanceBullets ==
    /\ state = "Running" /\ pc = "bullets"
    /\ LET r == advance(erase_bullets(space, bullets, 1), <<>>, bullets, 1)
       IN  /\ space' = draw_bullets(r.space, r.new_bullets, 1)
           /\ bullets' = r.new_bullets
    /\ pc' = "read"
    /\ UNCHANGED <<shooter_position, bullet_elapsed, deploy_elapsed, frame_elapsed,
                   move, raw_mode, non_blocking, state>>
    /\ tick_start' = [space |-> space', shooter_position |-> shooter_position',
                      bullets |-> bullets']

Next ==
    \/ ReadKey
    \/ Fire
    \/ MoveShooter
    \/ Quit
    \/ Deploy
    \/ Descend
    \/ AdvanceBullets

Spec == Init /\ [][Next]_vars

\* the loop keeps iterating: no statement of the body blocks
FairSpec == Spec /\ WF_vars(Next)

TypeOK ==
    /\ shooter_position \in 0 .. Cols - 1
    /\ state \in {"Running", "Lost", "Quit"}
    /\ pc \in {"read", "fire", "move", "deploy", "descend", "bullets", "done"}
\* ==== properties ==========================================================
Interior == 1 .. Cols - 2
Positions(bs) == {bs[k] : k \in 1 .. Len(bs)}
DescentTick == state = "Running" /\ pc = "descend" /\ frame_elapsed >= DescentInterval
BulletStep == state = "Running" /\ pc = "bullets"

\* C1: in a descent tick, once the enemies have moved, an Enemy in an interior
\* cell of row rows-2 (the shooter's row) makes the loop Lost in that same tick.
C1_LostWhenEnemyInShooterRow ==
    [][DescentTick /\ (\E j \in Interior : space'[ShooterRow][j] = "#")
          => state' = "Lost"]_vars

\* C2: no cell of the border ring (row 0, row rows-1, column 0, column cols-1)
\* ever stores a Shooter, an Enemy or a Bullet; the shooter column and every
\* listed bullet are strictly interior.
C2_BorderRingEmpty ==
    /\ \A i \in 0 .. Rows - 1, j \in 0 .. Cols - 1 :
          (i = 0 \/ i = Rows - 1 \/ j = 0 \/ j = Cols - 1) => space[i][j] = " "
    /\ shooter_position \in Interior
    /\ \A b \in Positions(bullets) : b[1] \in 1 .. Rows - 2 /\ b[2] \in Interior

\* C3 as stated: a bullet enqueued in this tick (the only bullets at row 27
\* when bullet advancement starts) is still at (27, c) when the tick completes.
C3_NewBulletStaysAtRow27 ==
    [][BulletStep =>
          \A b \in Positions(bullets) :
              b[1] = BulletRow => b \in Positions(bullets')]_vars

\* C3 amended: when the firing gate elapses exactly one bullet is appended, at
\* (27, c) with c the shooter column at that moment, otherwise none; the bullet
\* advancement of the same tick moves it to (26, c), or removes it with an Enemy
\* at (26, c); so no completed tick leaves a bullet in row 27.
C3_NewBulletAdvancedInSameTick ==
    /\ [][state = "Running" /\ pc = "fire" =>
             IF bullet_elapsed >= FireInterval
             THEN bullets' = Append(bullets, <<BulletRow, shooter_position>>)
             ELSE bullets' = bullets]_vars
    /\ [][BulletStep =>
             \A b \in Positions(bullets) :
                 b[1] = BulletRow =>
                     /\ b \notin Positions(bullets')
                     /\ IF space[BulletRow - 1][b[2]] = "#"
                        THEN <<BulletRow - 1, b[2]>> \notin Positions(bullets')
                        ELSE Cardinality({k \in 1 .. Len(bullets') :
                                 bullets'[k] = <<BulletRow - 1, b[2]>>}) = 1]_vars
    /\ [](pc = "read" => \A b \in Positions(bullets) : b[1] < BulletRow)

\* the first firing tick has completed: one bullet, one row above row 27
C3_Witness ==
    pc = "read" /\ bullets = << <<BulletRow - 1, ShooterStart>> >>
       /\ EnemyCells(space) = {}

\* C4: the shooter column stays in [1, cols-2]; 'a' at column 1 and 'd' at
\* column cols-2 leave it unchanged, 'a'/'d' elsewhere move it by one, any other
\* key and every other step leave it unchanged.
C4_ShooterColumnSaturates ==
    /\ [](shooter_position \in Interior)
    /\ [][IF state = "Running" /\ pc = "move"
          THEN /\ move = "a" /\ shooter_position = 1 => shooter_position' = 1
               /\ move = "a" /\ shooter_position > 1
                     => shooter_position' = shooter_position - 1
               /\ move = "d" /\ shooter_position = Cols - 2
                     => shooter_position' = Cols - 2
               /\ move = "d" /\ shooter_position < Cols - 2
                     => shooter_position' = shooter_position + 1
               /\ move \notin {"a", "d"} => shooter_position' = shooter_position
          ELSE shooter_position' = shooter_position]_vars

\* the shooter has been moved to the right edge and drawn there, and 'd' is
\* about to be applied again
C4_Witness ==
    /\ pc = "move" /\ move = "d" /\ shooter_position = Cols - 2
    /\ shooter_position # ShooterStart
    /\ space[ShooterRow][shooter_position] = "A"

\* C5 as stated: an enemy whose cell below is not Empty when the descent step
\* begins is in the same cell when it ends.
C5_BlockedEnemyStays ==
    [][DescentTick =>
          \A i \in 1 .. Rows - 2, j \in Interior :
              space[i][j] = "#" /\ space[i + 1][j] # " " => space'[i][j] = "#"]_vars

\* an enemy is held when the cells below it are enemies down to a shooter or
\* a bullet mark
RECURSIVE Held(_, _, _)
Held(sp, i, j) ==
    /\ i <= Rows - 2
    /\ sp[i][j] = "#"
    /\ \/ sp[i + 1][j] \in {"A", "."}
       \/ Held(sp, i + 1, j)

\* C5 amended: an enemy whose cell below holds the shooter, a bullet, or an
\* enemy that itself does not move in this step is in the same cell when the
\* descent step ends.
C5_HeldEnemyStays ==
    [][DescentTick =>
          \A i \in 1 .. Rows - 2, j \in Interior :
              Held(space, i, j) => space'[i][j] = "#"]_vars

\* a descent step has run and left an enemy above the shooter or a bullet
C5_Witness ==
    /\ pc = "bullets" /\ frame_elapsed = 0
    /\ \E i \in 1 .. Rows - 2, j \in Interior : Held(space, i, j)

\* C6: the movement phase of a descent tick keeps the number of Enemy cells.
C6_DescentKeepsEnemyCount ==
    [][DescentTick =>
          Cardinality(EnemyCells(space')) = Cardinality(EnemyCells(space))]_vars

\* a descent step has run with two enemies stacked above the shooter
C6_Witness ==
    /\ pc = "bullets" /\ frame_elapsed = 0
    /\ space[BulletRow][shooter_position] = "#"
    /\ space[BulletRow - 1][shooter_position] = "#"
\* a listed bullet that bullet advancement keeps: its next row is inside the
\* screen and holds no enemy
Survives(sp, b) == b[1] - 1 >= 1 /\ sp[b[1] - 1][b[2]] # "#"
Hits(sp, bs) == {k \in 1 .. Len(bs) : bs[k][1] - 1 >= 1 /\ sp[bs[k][1] - 1][bs[k][2]] = "#"}
Exits(bs) == {k \in 1 .. Len(bs) : bs[k][1] - 1 < 1}

\* C7: one bullet-advancement step takes every live bullet at (r, c) to
\* (r-1, c), except that it removes the bullet when r-1 < 1 or when (r-1, c)
\* holds an Enemy; the only cells that change are the old marks (erased), the
\* hit enemies (emptied) and the new positions (marked).
C7_BulletsAdvanceOneRow ==
    [][BulletStep =>
          LET kept == SelectSeq(bullets, LAMBDA b : Survives(space, b))
          IN  /\ bullets' = [k \in 1 .. Len(kept) |-> <<kept[k][1] - 1, kept[k][2]>>]
              /\ \A i \in 0 .. Rows - 1, j \in 0 .. Cols - 1 :
                    space'[i][j] =
                        IF <<i, j>> \in Positions(bullets') THEN "."
                        ELSE IF \E k \in Hits(space, bullets) :
                                  bullets[k] = <<i + 1, j>> THEN " "
                        ELSE IF space[i][j] = "." /\ <<i, j>> \in Positions(bullets)
                             THEN " "
                        ELSE space[i][j]]_vars

\* a tick has completed with a bullet that has reached the top playable row
C7_Witness == pc = "read" /\ \E b \in Positions(bullets) : b[1] = 1

\* C8: for an enemy at (r, c) and a live bullet at (r+1, c) when bullet
\* advancement runs, afterwards cell (r, c) is Empty and no bullet is at (r, c);
\* the step removes exactly one enemy and one bullet per hit.
C8_HitDestroysBoth ==
    [][BulletStep =>
          LET hits == Hits(space, bullets)
          IN  /\ \A k \in hits :
                    /\ space'[bullets[k][1] - 1][bullets[k][2]] = " "
                    /\ <<bullets[k][1] - 1, bullets[k][2]>> \notin Positions(bullets')
              /\ Cardinality(EnemyCells(space')) =
                    Cardinality(EnemyCells(space)) - Cardinality(hits)
              /\ Len(bullets') =
                    Len(bullets) - Cardinality(hits) - Cardinality(Exits(bullets))]_vars

\* bullet advancement is about to run with a bullet of an earlier tick right
\* below an enemy
C8_Witness ==
    /\ BulletStep
    /\ \E k \in Hits(space, bullets) : bullets[k][1] < BulletRow

\* C9: entering Lost or Quit restores the terminal (raw mode off, non-blocking
\* input off), and both are absorbing: no step changes anything afterwards.
C9_TerminalRestoredAndAbsorbing ==
    /\ [](state \in {"Lost", "Quit"} => ~raw_mode /\ ~non_blocking)
    /\ [][state # "Running" => UNCHANGED vars]_vars
    /\ [][state = "Running" /\ state' # "Running" =>
             ~raw_mode' /\ ~non_blocking' /\ pc' = "done"]_vars

\* the loop has quit
C9_Witness == state = "Quit" /\ pc = "done" /\ ~raw_mode /\ ~non_blocking

\* C10: an Enemy in an interior cell of row rows-2 when a descent tick begins
\* makes that descent tick end in Lost.
C10_EnemyInShooterRowLoses ==
    [][DescentTick /\ (\E j \in Interior : space[ShooterRow][j] = "#")
          => state' = "Lost"]_vars

\* the loop is lost, the enemy that was in the shooter's row has moved on
C10_Witness ==
    /\ state = "Lost"
    /\ \E j \in Interior : space[BottomRow][j] = "#" /\ space[ShooterRow][j] = " "
AllCells == (0 .. Rows - 1) \X (0 .. Cols - 1)
MarkCells(sp) == {c \in AllCells : sp[c[1]][c[2]] = "."}
ShooterCells(sp) == {c \in AllCells : sp[c[1]][c[2]] = "A"}

\* C11: at the end of every tick (the frame that is rendered) a cell holds the
\* Bullet mark if and only if its position is in the bullet collection.
C11_MarksMatchBullets ==
    [][BulletStep => MarkCells(space') = Positions(bullets')]_vars

\* a tick has completed after old marks had to be erased: two bullets are
\* listed and exactly their cells are marked
C11_Witness ==
    /\ state = "Running" /\ pc = "read"
    /\ Len(bullets) >= 2
    /\ MarkCells(space) = Positions(bullets)

\* C12: every rendered frame holds exactly one Shooter cell, at
\* (rows-2, shooter_position); moving the shooter leaves no second Shooter mark
\* and no other step erases or overwrites the Shooter cell.
C12_OneShooterCell ==
    /\ [][BulletStep =>
             ShooterCells(space') = {<<ShooterRow, shooter_position'>>}]_vars
    /\ [][state = "Running" /\ pc = "move" /\ move # "q" =>
             ShooterCells(space') = {<<ShooterRow, shooter_position'>>}]_vars
    /\ [][pc # "move" => ShooterCells(space') = ShooterCells(space)]_vars

\* a frame is rendered after the shooter has left its start column
C12_Witness ==
    /\ state = "Running" /\ pc = "read"
    /\ shooter_position # ShooterStart
    /\ ShooterCells(space) = {<<ShooterRow, shooter_position>>}

Below(c) == <<c[1] + 1, c[2]>>
HitCells(sp, bs) == {<<bs[k][1] - 1, bs[k][2]>> : k \in Hits(sp, bs)}

\* C13: while Running an enemy is removed only by a bullet: in a tick that
\* stays Running every Enemy cell of the start of the tick is at the end still
\* an Enemy, in the same cell or one row lower, or was the destination of a
\* bullet removed with it.
C13_EnemyRemovedOnlyByBullet ==
    [][BulletStep =>
          \A c \in EnemyCells(tick_start.space) :
              \/ space'[c[1]][c[2]] = "#"
              \/ c[1] + 1 <= Rows - 1 /\ space'[c[1] + 1][c[2]] = "#"
              \/ c \in HitCells(space, bullets)
              \/ Below(c) \in HitCells(space, bullets)]_vars

\* C14: a tick that observes 'q' only terminates the loop: in the Quit state
\* the board cells, the shooter column and the bullet collection are what
\* they were when that tick began.
C14_QuitChangesNothing ==
    state = "Quit" =>
        /\ space = tick_start.space
        /\ shooter_position = tick_start.shooter_position
        /\ bullets = tick_start.bullets

SpawnStep == state = "Running" /\ pc = "deploy" /\ deploy_elapsed >= SpawnInterval

\* C15: a spawn writes exactly one cell (1, c), c in [1, cols-2], setting it
\* to Enemy and creating no other enemy; on a cell that already holds an
\* Enemy it changes nothing, so repeated spawns at one column with no descent
\* in between leave exactly one Enemy at (1, c).
C15_SpawnWritesOneCell ==
    [][SpawnStep =>
          \E c \in Interior :
              /\ \A i \in 0 .. Rows - 1, j \in 0 .. Cols - 1 :
                    space'[i][j] = IF <<i, j>> = <<1, c>> THEN "#" ELSE space[i][j]
              /\ EnemyCells(space') = EnemyCells(space) \cup {<<1, c>>}
              /\ space[1][c] = "#" => space' = space]_vars

\* a spawn has just landed on a cell that held an Enemy since the start of
\* the tick: the spawn gate was reset in a tick in which time has passed, and
\* the set of Enemy cells is that of the start of the tick
C15_Witness ==
    /\ state = "Running" /\ pc = "descend"
    /\ deploy_elapsed = 0 /\ frame_elapsed >= DescentInterval
    /\ \E c \in Interior : tick_start.space[1][c] = "#"
    /\ EnemyCells(space) = EnemyCells(tick_start.space)

\* C16: within one tick the shooter movement is applied before the firing
\* gate: once the key of the tick has been applied, the bullet created in
\* this tick (the only bullet in row 27) is in the shooter's column after the
\* move.
C16_BulletInColumnAfterMove ==
    state = "Running" /\ pc \in {"deploy", "descend", "bullets"} =>
        \A b \in Positions(bullets) : b[1] = BulletRow => b[2] = shooter_position

\* number of enemies of column j in rows i and below
EnemiesFrom(sp, i, j) == Cardinality({r \in i .. Rows - 1 : sp[r][j] = "#"})

\* C17: in one descent tick every enemy moves down by at most one row: for
\* every column and row i, the enemies at or below row i after the descent
\* were at or below row i-1 before it, and no enemy moves up or sideways.
C17_DescentOneRowAtMost ==
    [][DescentTick =>
          \A j \in 0 .. Cols - 1 :
              /\ \A i \in 1 .. Rows - 1 :
                    EnemiesFrom(space', i, j) <= EnemiesFrom(space, i - 1, j)
              /\ \A i \in 0 .. Rows - 1 :
                    EnemiesFrom(space', i, j) >= EnemiesFrom(space, i, j)]_vars

\* a descent has moved an enemy one row down into a cell with an empty cell
\* below it, where a second step in the same tick would have been possible
C17_Witness ==
    /\ state = "Running" /\ pc = "bullets"
    /\ \E c \in EnemyCells(tick_start.space) :
          /\ c[1] <= Rows - 4
          /\ space[c[1]][c[2]] # "#"
          /\ tick_start.space[c[1] + 1][c[2]] # "#"
          /\ space[c[1] + 1][c[2]] = "#"
          /\ space[c[1] + 2][c[2]] = " "

\* C18: no two live bullets occupy the same cell: the positions of the bullet
\* collection are pairwise distinct, at the end of every tick and inside it,
\* so no cell is the destination of two bullets of one advancement.
C18_BulletsPairwiseDistinct ==
    /\ \A k1, k2 \in 1 .. Len(bullets) : k1 # k2 => bullets[k1] # bullets[k2]
    /\ \A k1, k2 \in Hits(space, bullets) : k1 # k2 => bullets[k1] # bullets[k2]

\* a frame with two bullets in one column, one right behind the other
C18_Witness ==
    /\ state = "Running" /\ pc = "read"
    /\ \E k1, k2 \in 1 .. Len(bullets) :
          bullets[k1][2] = bullets[k2][2] /\ bullets[k1][1] = bullets[k2][1] + 1

\* C19: bullets and enemies never pass through each other: a bullet that is
\* at (rb, c) when a tick begins, with an enemy above it at (re, c), re < rb,
\* is not above that enemy (now at re or re+1) when the tick ends and both
\* survive; when the enemy stands in the bullet's way, both are destroyed.
C19_NoPassThrough ==
    [][BulletStep =>
          \A b \in Positions(tick_start.bullets) :
              /\ \A e \in EnemyCells(tick_start.space) :
                    e[2] = b[2] /\ e[1] < b[1] /\ <<b[1] - 1, b[2]>> \in Positions(bullets')
                        => \A r \in {e[1], e[1] + 1} :
                              space'[r][b[2]] = "#" => r < b[1] - 1
              /\ space[b[1] - 1][b[2]] = "#"
                    => /\ <<b[1] - 1, b[2]>> \notin Positions(bullets')
                       /\ space'[b[1] - 1][b[2]] = " "]_vars

\* a descent has just run (another enemy has moved down) while an enemy stood
\* directly above a bullet of the start of the tick: it was held back by the
\* bullet's mark and is now in the cell the bullet is about to enter
C19_Witness ==
    /\ state = "Running" /\ pc = "bullets"
    /\ \E b \in Positions(tick_start.bullets) :
          /\ tick_start.space[b[1] - 1][b[2]] = "#"
          /\ space[b[1] - 1][b[2]] = "#"
    /\ \E c \in EnemyCells(tick_start.space) :
          /\ space[c[1]][c[2]] # "#"
          /\ tick_start.space[c[1] + 1][c[2]] # "#"
          /\ space[c[1] + 1][c[2]] = "#"

\* the enemy at (i, j) rests on the shooter, directly or on a pile of enemies
RECURSIVE RestsOnShooter(_, _, _)
RestsOnShooter(sp, i, j) ==
    /\ i <= Rows - 3
    /\ sp[i][j] = "#"
    /\ (sp[i + 1][j] = "A" \/ RestsOnShooter(sp, i + 1, j))

\* a descent step takes the enemy of (i, j) one row down: one more enemy is
\* below row i in its column afterwards
Moves(i, j) ==
    /\ DescentTick
    /\ space[i][j] = "#"
    /\ EnemiesFrom(space', i + 1, j) > EnemiesFrom(space, i + 1, j)

\* C20 as stated: if descent ticks keep occurring and Quit is never pressed,
\* every enemy is eventually destroyed or the loop reaches Lost, so no cell
\* holds an enemy forever that no descent step moves.
C20_NoEnemyStaysForever ==
    ([]<>DescentTick /\ [](state # "Quit")) =>
        \A i \in 1 .. Rows - 2 : \A j \in Interior :
            \/ []<>(space[i][j] # "#" \/ state = "Lost")
            \/ []<><<Moves(i, j)>>_vars

\* C20: if descent ticks keep occurring and Quit is never pressed, every
\* enemy that does not rest on the shooter (directly or on a pile of enemies
\* above the shooter) is eventually moved down or removed, or the loop
\* reaches Lost; only an enemy resting on the shooter can stay forever.
C20_OnlyRestingEnemyStays ==
    ([]<>DescentTick /\ [](state # "Quit")) =>
        \A i \in 1 .. Rows - 1 : \A j \in Interior :
            \/ []<>(space[i][j] # "#" \/ state = "Lost" \/ RestsOnShooter(space, i, j))
            \/ []<><<Moves(i, j)>>_vars

\* a frame in which an enemy rests on the shooter while a bullet fired from
\* below it flies above it in the same column
C20_Witness ==
    /\ state = "Running" /\ pc = "read"
    /\ RestsOnShooter(space, Rows - 3, shooter_position)
    /\ \E b \in Positions(bullets) : b[2] = shooter_position /\ b[1] < Rows - 3
====
